---- MODULE Spec2Model ----
(***************************************************************************)
(* fatfs-embedded: the block-device bridge (src/fatfs/diskio.rs and        *)
(* src/fatfs/diskio/diskio_bindings.rs), the driver registry DRIVER, the   *)
(* global file-system mutex FS and the RawFileSystem session API           *)
(* (src/lib.rs), with the RAM test driver of tests/simulated_driver.rs.    *)
(*                                                                         *)
(* TLC integers are 32-bit signed, so every u32/usize quantity that can    *)
(* exceed 2^31-1 (sector counts, slice lengths, the packed FAT time) is a  *)
(* pair [hi, lo] of 16-bit halves: value = hi * 2^16 + lo.                 *)
(***************************************************************************)
EXTENDS Integers, Sequences, FiniteSets, TLC

VARIABLES
    build,      \* the build the program was compiled as (target width, flags)
    DRIVER,     \* diskio.rs:49  the registry slot: None or the boxed driver
    installs,   \* number of drivers created and installed so far
    last,       \* the latest bridge entry-point call and its outcome
    panicked,   \* a panic! has unwound/aborted the program
    fs,         \* lib.rs:327-329  RawFileSystem.fs, the FATFS inside FS
    FatFs,      \* the engine holds a pointer to fs (its volume table entry)
    Fsid,       \* the engine's count of mounts, the source of volume ids
    fil,        \* the File (FIL) the application got from open
    sres,       \* the latest session operation of the lone caller and its outcome
    trip,       \* how far a create/write/seek/read round trip has come
    FS_locked,      \* lib.rs:299  the state of the mutex FS
    DRIVER_locked,  \* diskio.rs:49  the state of the mutex DRIVER
    guard,      \* per task: it holds the MutexGuard of FS
    pc,         \* per task: "idle", "engine" (inside a session operation),
                \* "bridge" (inside an entry point, under the DRIVER lock),
                \* "install" (inside install, under the DRIVER lock)
    cur,        \* per task: its session operation, as the engine call it makes
    snap,       \* per task: the operation and the state it started from
    clean,      \* per task: no install has completed since its operation started
    ran,        \* the driver methods run by the latest bridge call of a task
    probe       \* the latest conversion made on its own: its name, input, output

----------------------------------------------------------------------------
(* Bounds of the model *)

\* drivers an execution may install
MaxInstalls == 2
\* leading sectors of the RAM disk whose content the model tracks
MemSectors == 3
\* volumes the engine mounts in an execution
MaxMounts == 2

----------------------------------------------------------------------------
(* Program constants *)

STA_NOINIT == 1
STA_NODISK == 2
STA_PROTECT == 4
SECTOR_SIZE == 512
DRESULT_RES_OK == 0
DRESULT_RES_ERROR == 1
DRESULT_RES_WRPRT == 2
DRESULT_RES_NOTRDY == 3
DRESULT_RES_PARERR == 4
CTRL_SYNC == 0
GET_SECTOR_COUNT == 1
GET_SECTOR_SIZE == 2
GET_BLOCK_SIZE == 3
CTRL_TRIM == 4
\* tests/simulated_driver.rs:3   1024 * 1000 * 64
STORAGE_SIZE == 65536000

----------------------------------------------------------------------------
(* Wide unsigned numbers: [hi, lo], value = hi * 2^16 + lo, 0 <= lo < 2^16 *)

B16 == 2^16

W(h, l) == [hi |-> h, lo |-> l]

WZero == W(0, 0)

\* the exact (mathematical) product of a wide number and a small factor k <= 2^14
WideTimes(w, k) ==
    LET p == w.lo * k
    IN  W(w.hi * k + (p \div B16), p % B16)

\* w < 2^bits, for bits in {32, 64}
FitsIn(w, bits) == IF bits = 32 THEN w.hi < B16 ELSE TRUE

\* w mod 2^bits, for bits in {32, 64}
WrapTo(w, bits) == IF bits = 32 THEN W(w.hi % B16, w.lo) ELSE w

\* bitwise or of two naturals
RECURSIVE BitOr(_, _)
BitOr(a, b) ==
    IF a = 0 THEN b
    ELSE IF b = 0 THEN a
    ELSE (IF a % 2 = 1 \/ b % 2 = 1 THEN 1 ELSE 0) + 2 * BitOr(a \div 2, b \div 2)

----------------------------------------------------------------------------
(* The builds of the crate.  usize is the target's pointer width; integer  *)
(* overflow panics with overflow checks (debug profile) and wraps without  *)
(* (release profile); feature "chrono" is on by default.                   *)

Builds == [usizeBits : {32, 64}, overflow_checks : BOOLEAN, chrono : BOOLEAN]

\* usize multiplication a * k:  [panic, value]
usize_mul(a, k) ==
    LET e == WideTimes(a, k)
    IN  [panic |-> build.overflow_checks /\ ~FitsIn(e, build.usizeBits),
         value |-> WrapTo(e, build.usizeBits)]

----------------------------------------------------------------------------
(* diskio.rs:12-17  IoctlCommand, a tagged value *)

CtrlSync == [tag |-> "CtrlSync", value |-> 0]
GetSectorCount(v) == [tag |-> "GetSectorCount", value |-> v]
GetSectorSize(v) == [tag |-> "GetSectorSize", value |-> v]
GetBlockSize(v) == [tag |-> "GetBlockSize", value |-> v]

IoctlTags == {"CtrlSync", "GetSectorCount", "GetSectorSize", "GetBlockSize"}

\* diskio.rs:19-25  DiskResult as DRESULT
DiskResult == {DRESULT_RES_OK, DRESULT_RES_ERROR, DRESULT_RES_WRPRT,
               DRESULT_RES_NOTRDY, DRESULT_RES_PARERR}

----------------------------------------------------------------------------
(* Sector contents *)

ZeroSector == [i \in 1..SECTOR_SIZE |-> 0]

Fill(b) == [i \in 1..SECTOR_SIZE |-> b]

----------------------------------------------------------------------------
(* Drivers: implementors of trait FatFsDriver (diskio.rs:36-45).  A driver *)
(* is a record [kind, id, len, sec]: kind "Ram" is RamBlockStorage of      *)
(* tests/simulated_driver.rs (len = memory.len(), sec = the content of its *)
(* leading MemSectors sectors); kind "Any" is an arbitrary implementor,    *)
(* whose return values are inputs of the action that calls it.  id names   *)
(* the instance (install takes the driver by value: an instance is         *)
(* installed at most once).                                                *)

TrackedSectors == 0..(MemSectors - 1)

\* diskio.rs:49  the empty slot, Mutex::new(None)
None == [kind |-> "None", id |-> 0, len |-> 0, sec |-> <<>>]

\* simulated_driver.rs:10-16  RamBlockStorage::new
RamBlockStorage_new(i) ==
    [kind |-> "Ram", id |-> i, len |-> 0, sec |-> [s \in TrackedSectors |-> ZeroSector]]

\* some other implementor of the trait
AnyDriver_new(i) ==
    [kind |-> "Any", id |-> i, len |-> 0, sec |-> <<>>]

SectorOf(d, sector) == IF sector \in TrackedSectors THEN d.sec[sector] ELSE ZeroSector

\* what a driver method hands back: the driver after the call, whether it
\* panicked, its result, the data it produced (the bytes of a read, the
\* IoctlCommand left in *data), and whether it wrote to the slice it was given
DrvRet(d, panic, res, data) ==
    [d |-> d, panic |-> panic, res |-> res, data |-> data, wrote |-> data # <<>>]

\* simulated_driver.rs:19-21
Ram_disk_status(d) == DrvRet(d, FALSE, 0, <<>>)

\* simulated_driver.rs:23-26  Vec::resize keeps the bytes already there
Ram_disk_initialize(d) == DrvRet([d EXCEPT !.len = STORAGE_SIZE], FALSE, 0, <<>>)

\* simulated_driver.rs:28-32  memory[offset..offset+512] panics past the end
\* of the vector; copy_from_slice panics unless both lengths are equal
Ram_disk_read(d, len, sector) ==
    LET offset == sector * 512
    IN  IF offset + 512 > d.len \/ len # W(0, 512)
        THEN DrvRet(d, TRUE, DRESULT_RES_ERROR, <<>>)
        ELSE DrvRet(d, FALSE, DRESULT_RES_OK, SectorOf(d, sector))

\* a RAM disk that stores every sector at offset 0
Ram_disk_write_at_zero(d, bytes, len, sector) ==
    IF 512 > d.len \/ len # W(0, 512)
    THEN DrvRet(d, TRUE, DRESULT_RES_ERROR, <<>>)
    ELSE DrvRet([d EXCEPT !.sec[0] = bytes], FALSE, DRESULT_RES_OK, <<>>)

\* simulated_driver.rs:34-38
Ram_disk_write(d, bytes, len, sector) ==
    LET offset == sector * 512
    IN  IF offset + 512 > d.len \/ len # W(0, 512)
        THEN DrvRet(d, TRUE, DRESULT_RES_ERROR, <<>>)
        ELSE DrvRet(IF sector \in TrackedSectors
                    THEN [d EXCEPT !.sec[sector] = bytes]
                    ELSE d,
                    FALSE, DRESULT_RES_OK, <<>>)

\* simulated_driver.rs:40-57
Ram_disk_ioctl(d, data) ==
    IF data.tag = "CtrlSync" THEN DrvRet(d, FALSE, DRESULT_RES_OK, data)
    ELSE IF data.tag = "GetSectorCount"
         THEN DrvRet(d, FALSE, DRESULT_RES_OK, GetSectorCount(d.len \div SECTOR_SIZE))
    ELSE IF data.tag = "GetSectorSize"
         THEN DrvRet(d, FALSE, DRESULT_RES_OK, GetSectorSize(SECTOR_SIZE))
    ELSE IF data.tag = "GetBlockSize"
         THEN DrvRet(d, FALSE, DRESULT_RES_OK, GetBlockSize(SECTOR_SIZE))
    ELSE DrvRet(d, FALSE, DRESULT_RES_ERROR, data)

(* Dynamic dispatch on Box<dyn FatFsDriver>.  resp is what an "Any" driver *)
(* answers; a "Ram" driver ignores it.                                     *)

\* diskio.rs:37
Driver_disk_status(d, resp) ==
    IF d.kind = "Ram" THEN Ram_disk_status(d) ELSE DrvRet(d, FALSE, resp, <<>>)

\* diskio.rs:38
Driver_disk_initialize(d, resp) ==
    IF d.kind = "Ram" THEN Ram_disk_initialize(d) ELSE DrvRet(d, FALSE, resp, <<>>)

\* diskio.rs:39  resp = [res, wrote]
Driver_disk_read(d, len, sector, resp) ==
    IF d.kind = "Ram" THEN Ram_disk_read(d, len, sector)
    ELSE [DrvRet(d, FALSE, resp.res, <<>>) EXCEPT !.wrote = resp.wrote]

\* diskio.rs:40
Driver_disk_write(d, bytes, len, sector, resp) ==
    IF d.kind = "Ram" THEN Ram_disk_write(d, bytes, len, sector)
    ELSE DrvRet(d, FALSE, resp, <<>>)

\* diskio.rs:41  resp = [res, data]: the result and the value left in *data
Driver_disk_ioctl(d, data, resp) ==
    IF d.kind = "Ram" THEN Ram_disk_ioctl(d, data)
    ELSE DrvRet(d, FALSE, resp.res, resp.data)

----------------------------------------------------------------------------
(* The registry and the bridge entry points.  Each entry point is an       *)
(* operator from the registry slot (as found under the DRIVER lock) and    *)
(* the call's arguments to the call's outcome:                             *)
(*   reg      the slot after the call (a driver method may change the      *)
(*            driver's own state)                                          *)
(*   ret      the value returned to the engine (NoReturn after a panic)    *)
(*   panic    the call panicked                                            *)
(*   drv      the driver methods invoked, in order: [method, id, len, res] *)
(*            with len the length of the slice handed over and res what    *)
(*            the method returned (NoReturn if it panicked)                *)
(*   request  disk_ioctl: the IoctlCommand built before the driver ran     *)
(*   reply    disk_ioctl: the IoctlCommand the driver left in its place    *)
(*   data     disk_read: the bytes the driver put in the slice             *)
(*   touched  the caller's buffer was written                              *)
(*   outWidth, outValue   disk_ioctl: bytes copied to buff and their value *)
(*   fattime  get_fattime: the packed DWORD as [hi, lo]                    *)
(* The drive number pdrv is passed through unchanged and no driver of the  *)
(* model reads it; it is left out.                                         *)

NoReturn == 0 - 1

Inv(m, d, l, r) ==
    [method |-> m, id |-> d.id, len |-> l, res |-> IF r.panic THEN NoReturn ELSE r.res]

BridgeOut(reg, ret, drv) ==
    [reg |-> reg, ret |-> ret, panic |-> FALSE, drv |-> drv, request |-> CtrlSync,
     reply |-> CtrlSync, data |-> <<>>, touched |-> FALSE, outWidth |-> 0, outValue |-> 0,
     fattime |-> WZero]

BridgePanic(reg, drv) == [BridgeOut(reg, NoReturn, drv) EXCEPT !.panic = TRUE]

\* a bridge that moves the driver out of the slot for the call (Option::take)
Forward_take(r, m, d, l) ==
    IF r.panic THEN BridgePanic(None, <<Inv(m, d, l, r)>>)
    ELSE BridgeOut(None, r.res, <<Inv(m, d, l, r)>>)

\* what a driver call made by the bridge comes to: the driver's result is
\* returned unless the driver panicked
Forward(r, m, d, l) ==
    IF r.panic THEN BridgePanic(r.d, <<Inv(m, d, l, r)>>)
    ELSE BridgeOut(r.d, r.res, <<Inv(m, d, l, r)>>)

\* install that leaves an occupied slot as it is
install_keep_first(reg, driver) == IF reg = None THEN driver ELSE reg

\* diskio.rs:55-58  Option::replace stores the new driver, the old one is dropped
install(reg, driver) == driver

\* diskio_bindings.rs:25-32
disk_status(reg, resp) ==
    IF reg # None
    THEN Forward(Driver_disk_status(reg, resp), "disk_status", reg, WZero)
    ELSE BridgeOut(reg, STA_NOINIT, <<>>)

\* a bridge that answers "ready" for an empty slot
disk_initialize_ready(reg, resp) ==
    IF reg # None
    THEN Forward(Driver_disk_initialize(reg, resp), "disk_initialize", reg, WZero)
    ELSE BridgeOut(reg, 0, <<>>)

\* diskio_bindings.rs:34-41
disk_initialize(reg, resp) ==
    IF reg # None
    THEN Forward(Driver_disk_initialize(reg, resp), "disk_initialize", reg, WZero)
    ELSE BridgeOut(reg, STA_NOINIT, <<>>)

\* a bridge that takes the sector count for the byte count
slice_len_unscaled(count) == usize_mul(count, 1)

\* diskio_bindings.rs:46  (count as usize) * SECTOR_SIZE
slice_len(count) == usize_mul(count, SECTOR_SIZE)

\* diskio_bindings.rs:43-51  buff is a raw pointer: the bridge learns nothing
\* of the size of the buffer behind it
disk_read(reg, sector, count, resp) ==
    IF reg # None
    THEN LET n == slice_len(count)
         IN  IF n.panic THEN BridgePanic(reg, <<>>)
             ELSE LET r == Driver_disk_read(reg, n.value, sector, resp)
                      o == Forward(r, "disk_read", reg, n.value)
                  IN  [o EXCEPT !.data = r.data, !.touched = r.wrote]
    ELSE BridgeOut(reg, DRESULT_RES_ERROR, <<>>)

\* diskio_bindings.rs:53-61  bytes: what lies at buff, read through the slice
disk_write(reg, bytes, sector, count, resp) ==
    IF reg # None
    THEN LET n == slice_len(count)
         IN  IF n.panic THEN BridgePanic(reg, <<>>)
             ELSE Forward(Driver_disk_write(reg, bytes, n.value, sector, resp),
                          "disk_write", reg, n.value)
    ELSE BridgeOut(reg, DRESULT_RES_ERROR, <<>>)

\* a bridge that lets CTRL_TRIM through to the driver
SupportedIoctl_with_trim ==
    {CTRL_SYNC, GET_SECTOR_COUNT, GET_SECTOR_SIZE, GET_BLOCK_SIZE, CTRL_TRIM}

\* diskio_bindings.rs:67-70  the opcodes the match gives a request for
SupportedIoctl == {CTRL_SYNC, GET_SECTOR_COUNT, GET_SECTOR_SIZE, GET_BLOCK_SIZE}

\* diskio_bindings.rs:66-73  the typed request for a supported opcode
ioctl_request(cmd) ==
    IF cmd = CTRL_SYNC THEN CtrlSync
    ELSE IF cmd = GET_SECTOR_COUNT THEN GetSectorCount(0)
    ELSE IF cmd = GET_SECTOR_SIZE THEN GetSectorSize(0)
    ELSE GetBlockSize(0)

\* a bridge that copies a DWORD for every query
copy_width_dword(data) == IF data.tag = "CtrlSync" THEN 0 ELSE 4

\* diskio_bindings.rs:75-80  bytes copied to buff for the value left in data
copy_width(data) ==
    IF data.tag = "GetBlockSize" THEN 4
    ELSE IF data.tag = "GetSectorSize" THEN 2
    ELSE IF data.tag = "GetSectorCount" THEN 4
    ELSE 0

\* diskio_bindings.rs:63-85  the driver's DiskResult is discarded (line 74)
disk_ioctl(reg, cmd, resp) ==
    IF reg # None
    THEN IF cmd \notin SupportedIoctl THEN BridgePanic(reg, <<>>)
         ELSE LET data == ioctl_request(cmd)
                  r == Driver_disk_ioctl(reg, data, resp)
                  drv == <<Inv("disk_ioctl", reg, WZero, r)>>
              IN  IF r.panic THEN [BridgePanic(r.d, drv) EXCEPT !.request = data]
                  ELSE [BridgeOut(r.d, DRESULT_RES_OK, drv) EXCEPT
                            !.request = data,
                            !.reply = r.data,
                            !.outWidth = copy_width(r.data),
                            !.outValue = r.data.value,
                            !.touched = copy_width(r.data) > 0]
    ELSE BridgeOut(reg, DRESULT_RES_ERROR, <<>>)

\* diskio_bindings.rs:99  (year - 80) << 25 | month << 21 | day << 16
\*                        | hour << 11 | minute << 5 | second << 1   in u32
pack_fattime(t) ==
    W(BitOr(BitOr(((t.year - 80) % 128) * 512, t.month * 32), t.day),
      BitOr(BitOr(t.hour * 2048, t.minute * 32), t.second * 2))

\* diskio_bindings.rs:87-107  time: what the driver's get_fattime returns
get_fattime(reg, time) ==
    IF build.chrono /\ reg # None
    THEN [BridgeOut(reg, 0, <<Inv("get_fattime", reg, WZero, DrvRet(reg, FALSE, 0, <<>>))>>) EXCEPT
              !.fattime = pack_fattime(time)]
    ELSE BridgeOut(reg, 0, <<>>)

----------------------------------------------------------------------------
(* Inputs of the bridge calls *)

\* sector counts (UINT) below: 0, 1, 2, 2^23 - 1, 2^23, 2^32 - 1

\* ioctl opcodes (BYTE): the four supported ones, CTRL_TRIM, and two unknown ones
Cmds == {CTRL_SYNC, GET_SECTOR_COUNT, GET_SECTOR_SIZE, GET_BLOCK_SIZE, CTRL_TRIM, 5, 255}

\* a read or write request: the declared sector count and the number of
\* bytes really allocated behind the raw pointer buff (equal to, less than
\* or more than count * SECTOR_SIZE)
Requests ==
    {[count |-> W(0, 0), buflen |-> W(0, 0)],
     [count |-> W(0, 0), buflen |-> W(0, 512)],
     [count |-> W(0, 1), buflen |-> W(0, 0)],
     [count |-> W(0, 1), buflen |-> W(0, 512)],
     [count |-> W(0, 1), buflen |-> W(0, 1024)],
     [count |-> W(0, 2), buflen |-> W(0, 512)],
     [count |-> W(0, 2), buflen |-> W(0, 1024)],
     [count |-> W(127, 65535), buflen |-> W(0, 1024)],
     [count |-> W(128, 0), buflen |-> W(0, 1024)],
     [count |-> W(65535, 65535), buflen |-> W(0, 1024)]}

\* status bytes an arbitrary driver may answer
StatusBytes == {0, STA_NOINIT, STA_NODISK, STA_PROTECT}

\* values an arbitrary driver may leave in *data
IoctlValues ==
    {CtrlSync, GetSectorCount(128000), GetSectorSize(512), GetBlockSize(0),
     GetBlockSize(1)}

IoctlAnswers == [res : DiskResult, data : IoctlValues]

ReadAnswers ==
    {[res |-> DRESULT_RES_OK, wrote |-> TRUE]} \cup [res : DiskResult, wrote : {FALSE}]

\* date-times a driver's clock may return (chrono keeps every field in range)
Times ==
    {[year |-> 1980, month |-> 1, day |-> 1, hour |-> 0, minute |-> 0, second |-> 0],
     [year |-> 2024, month |-> 12, day |-> 31, hour |-> 23, minute |-> 59, second |-> 59],
     [year |-> 2107, month |-> 6, day |-> 15, hour |-> 12, minute |-> 30, second |-> 1]}

\* the byte that fills the memory a write's slice covers (the caller's
\* buffer and, past a short buffer, whatever follows it)
DataBytes == {165}

----------------------------------------------------------------------------
(* The latest bridge call: its entry point, arguments, the driver it found *)
(* in the registry slot (kind, id and memory.len()), and its outcome (the   *)
(* slot after the call is DRIVER itself).                                  *)

Call(fn, cmd, count, buflen, before, out) ==
    [fn |-> fn, cmd |-> cmd, count |-> count, buflen |-> buflen,
     before |-> [kind |-> before.kind, id |-> before.id, len |-> before.len],
     out |-> [out EXCEPT !.reg = None]]

NoCall == Call("none", 0, WZero, WZero, None, BridgeOut(None, 0, <<>>))

\* the driver instances created so far are 1..installs
NewDrivers(i) == {RamBlockStorage_new(i), AnyDriver_new(i)}

----------------------------------------------------------------------------
(* The engine's result codes (FRESULT of the generated bindings) and the   *)
(* Error taxonomy of lib.rs                                                *)

FRESULT_FR_OK == 0
FRESULT_FR_DISK_ERR == 1
FRESULT_FR_INT_ERR == 2
FRESULT_FR_NOT_READY == 3
FRESULT_FR_NO_FILE == 4
FRESULT_FR_NO_PATH == 5
FRESULT_FR_INVALID_NAME == 6
FRESULT_FR_DENIED == 7
FRESULT_FR_EXIST == 8
FRESULT_FR_INVALID_OBJECT == 9
FRESULT_FR_WRITE_PROTECTED == 10
FRESULT_FR_INVALID_DRIVE == 11
FRESULT_FR_NOT_ENABLED == 12
FRESULT_FR_NO_FILESYSTEM == 13
FRESULT_FR_MKFS_ABORTED == 14
FRESULT_FR_TIMEOUT == 15
FRESULT_FR_LOCKED == 16
FRESULT_FR_NOT_ENOUGH_CORE == 17
FRESULT_FR_TOO_MANY_OPEN_FILES == 18
FRESULT_FR_INVALID_PARAMETER == 19

\* lib.rs:105-125  enum Error: each variant with its discriminant
Error ==
    [DiskError |-> FRESULT_FR_DISK_ERR, IntError |-> FRESULT_FR_INT_ERR,
     NotReady |-> FRESULT_FR_NOT_READY, NoFile |-> FRESULT_FR_NO_FILE,
     NoPath |-> FRESULT_FR_NO_PATH, InvalidName |-> FRESULT_FR_INVALID_NAME,
     Denied |-> FRESULT_FR_DENIED, Exists |-> FRESULT_FR_EXIST,
     InvalidObject |-> FRESULT_FR_INVALID_OBJECT,
     WriteProtected |-> FRESULT_FR_WRITE_PROTECTED,
     InvalidDrive |-> FRESULT_FR_INVALID_DRIVE, NotEnabled |-> FRESULT_FR_NOT_ENABLED,
     NoFileSystem |-> FRESULT_FR_NO_FILESYSTEM, MkfsAborted |-> FRESULT_FR_MKFS_ABORTED,
     Timeout |-> FRESULT_FR_TIMEOUT, Locked |-> FRESULT_FR_LOCKED,
     NotEnoughCore |-> FRESULT_FR_NOT_ENOUGH_CORE,
     TooManyOpenFiles |-> FRESULT_FR_TOO_MANY_OPEN_FILES,
     InvalidParameter |-> FRESULT_FR_INVALID_PARAMETER]

\* a match that lacks the arm of the last variant
try_from_arms_short ==
    <<"DiskError", "IntError", "NotReady", "NoFile", "NoPath", "InvalidName", "Denied",
      "Exists", "InvalidObject", "WriteProtected", "InvalidDrive", "NotEnabled",
      "NoFileSystem", "MkfsAborted", "Timeout", "Locked", "NotEnoughCore",
      "TooManyOpenFiles">>

\* lib.rs:131-151  the arms of the match, in order
try_from_arms ==
    <<"DiskError", "IntError", "NotReady", "NoFile", "NoPath", "InvalidName", "Denied",
      "Exists", "InvalidObject", "WriteProtected", "InvalidDrive", "NotEnabled",
      "NoFileSystem", "MkfsAborted", "Timeout", "Locked", "NotEnoughCore",
      "TooManyOpenFiles", "InvalidParameter">>

\* a conversion that maps every unknown code to a fallback variant
Error_try_from_fallback(v) ==
    LET hits == {i \in DOMAIN try_from_arms : Error[try_from_arms[i]] = v}
    IN  IF hits = {} THEN [ok |-> TRUE, e |-> "IntError"]
        ELSE [ok |-> TRUE,
              e |-> try_from_arms[CHOOSE i \in hits : \A j \in hits : i <= j]]

\* lib.rs:127-154  TryFrom<u32> for Error: the first arm whose guard holds,
\* Err(()) if none does
Error_try_from(v) ==
    LET hits == {i \in DOMAIN try_from_arms : Error[try_from_arms[i]] = v}
    IN  IF hits = {} THEN [ok |-> FALSE, e |-> ""]
        ELSE [ok |-> TRUE,
              e |-> try_from_arms[CHOOSE i \in hits : \A j \in hits : i <= j]]

\* what a session operation hands its caller: Ok(n) / Ok(()) or Err(e), the
\* bytes a read put in the caller's buffer, or a panic
SessionOk(n, data) == [panic |-> FALSE, data |-> data, n |-> n, ok |-> TRUE, err |-> ""]

SessionErr(e) == [panic |-> FALSE, data |-> <<>>, n |-> 0, ok |-> FALSE, err |-> e]

SessionPanic == [panic |-> TRUE, data |-> <<>>, n |-> 0, ok |-> FALSE, err |-> ""]

\* a session that reports every engine result as success
map_result_ok(result, n, data) == SessionOk(n, data)

\* lib.rs:339-343 (and the same lines of every method)
\*   if result == FRESULT_FR_OK { Ok(..) } else { Err(Error::try_from(result).unwrap()) }
map_result(result, n, data) ==
    IF result = FRESULT_FR_OK THEN SessionOk(n, data)
    ELSE LET e == Error_try_from(result)
         IN  IF e.ok THEN SessionErr(e.e) ELSE SessionPanic

\* a putc that takes a count of 0 for a failure
putc_strict(result) ==
    IF result > 0 THEN SessionOk(result, <<>>) ELSE SessionErr("Denied")

\* lib.rs:682-690  putc: the engine's int is the count, negative on failure
putc(result) ==
    IF result >= 0 THEN SessionOk(result, <<>>) ELSE SessionErr("Denied")

\* lib.rs:693-701  puts: likewise
puts(result) ==
    IF result >= 0 THEN SessionOk(result, <<>>) ELSE SessionErr("Denied")

\* lib.rs:705-713  gets: the engine returns the buffer's address, or null
gets(nonnull) ==
    IF nonnull THEN SessionOk(0, <<>>) ELSE SessionErr("Denied")

\* lib.rs:543  utime: info.fdate = (((year - 1980) * 512) | month * 32 | day) as u16
utime_fdate(t) == BitOr(BitOr((t.year - 1980) * 512, t.month * 32), t.day) % B16

\* lib.rs:544  utime: info.ftime = (hour * 2048 | minute * 32 | second / 2) as u16
utime_ftime(t) == BitOr(BitOr(t.hour * 2048, t.minute * 32), t.second \div 2) % B16

----------------------------------------------------------------------------
(* The filesystem engine: FatFs R0.15, fatfs/source/ff.c, compiled in by   *)
(* build.rs and not part of src/.  It is modelled as the specification     *)
(* describes it, a correct FAT engine behind the entry points f_mkfs,      *)
(* f_mount, f_open, f_write, f_read and f_lseek that reaches the medium    *)
(* only through the six bridge entry points, sector by sector, and keeps a *)
(* one-sector cache per open file.  The model keeps one volume and one     *)
(* file: the boot sector is sector 0, the file's data start at sector      *)
(* DataBase and are contiguous; directory and allocation-table traffic and *)
(* path strings are left out.                                              *)
(*                                                                         *)
(* The engine state is g = [fs, FatFs, Fsid, fil].  A call in progress is  *)
(* op = [fn, stage, wbuf, btr, rbuf, n, res]: wbuf the bytes still to      *)
(* write, btr the bytes still to read, rbuf the bytes read so far, n the   *)
(* bytes transferred, res the FRESULT once stage = "done".  Each step of   *)
(* a call makes at most one bridge call: EngineRequest names it,           *)
(* EngineAdvance takes its outcome.                                        *)

FS_FAT32 == 3

\* first sector of the file's data
DataBase == 1

\* f_mkfs refuses a volume of fewer sectors
MinVolume == 128

\* lib.rs:156-182  FATFS::default(), and the value FS is created with
\* (lib.rs:299-324): an unmounted volume with id 0
FATFS_default == [fs_type |-> 0, id |-> 0]

\* lib.rs:198-213  FIL::default(): no volume behind the handle
FIL_default ==
    [open |-> FALSE, id |-> 0, fptr |-> 0, objsize |-> 0, sect |-> 0,
     buf |-> ZeroSector, dirty |-> FALSE]

BootSector == [i \in 1..SECTOR_SIZE |-> IF i = 511 THEN 85 ELSE IF i = 512 THEN 170 ELSE 0]

HasBootSignature(bytes) == Len(bytes) = SECTOR_SIZE /\ bytes[511] = 85 /\ bytes[512] = 170

HasBit(v, bit) == (v \div bit) % 2 = 1

NewOp(fn, wbuf, btr) ==
    [fn |-> fn, stage |-> "start", wbuf |-> wbuf, btr |-> btr, rbuf |-> <<>>, n |-> 0,
     res |-> FRESULT_FR_OK]

NoOp == [NewOp("none", <<>>, 0) EXCEPT !.stage = "done"]

Done(op, res) == [op EXCEPT !.stage = "done", !.res = res]

Rq(fn, sector, count, bytes, cmd) ==
    [fn |-> fn, sector |-> sector, count |-> count, bytes |-> bytes, cmd |-> cmd]

NoRq == Rq("none", 0, WZero, <<>>, 0)

Min(a, b) == IF a < b THEN a ELSE b

Max(a, b) == IF a > b THEN a ELSE b

\* the sector of the file position
FileSector(f) == DataBase + (f.fptr \div SECTOR_SIZE)

\* a sector run of cc sectors starting at sect covers the cached sector
CacheInRun(f, sect, cc) == f.sect >= sect /\ f.sect - sect < cc

\* f_write: the bridge call of the next pass of its loop
WriteRequest(op, f) ==
    LET btw == Len(op.wbuf)
        sect == FileSector(f)
        cc == btw \div SECTOR_SIZE
    IN  IF btw = 0 \/ f.fptr % SECTOR_SIZE # 0 THEN NoRq
        ELSE IF f.dirty THEN Rq("disk_write", f.sect, W(0, 1), f.buf, 0)
        ELSE IF cc > 0
             THEN Rq("disk_write", sect, W(0, cc), SubSeq(op.wbuf, 1, SECTOR_SIZE), 0)
        ELSE IF f.sect # sect /\ f.fptr < f.objsize
             THEN Rq("disk_read", sect, W(0, 1), <<>>, 0)
        ELSE NoRq

\* f_read: the bridge call of the next pass of its loop
ReadRequest(op, f) ==
    LET sect == FileSector(f)
        cc == op.btr \div SECTOR_SIZE
    IN  IF op.btr = 0 \/ f.fptr % SECTOR_SIZE # 0 THEN NoRq
        ELSE IF cc > 0 THEN Rq("disk_read", sect, W(0, cc), <<>>, 0)
        ELSE IF f.sect = sect THEN NoRq
        ELSE IF f.dirty THEN Rq("disk_write", f.sect, W(0, 1), f.buf, 0)
        ELSE Rq("disk_read", sect, W(0, 1), <<>>, 0)

\* the bridge call the engine makes next in op, or NoRq for a step that
\* makes none
EngineRequest(op, g) ==
    IF op.stage = "init" \/ (op.fn = "f_mkfs" /\ op.stage = "start")
    THEN Rq("disk_initialize", 0, WZero, <<>>, 0)
    ELSE IF op.stage = "stat" THEN Rq("disk_status", 0, WZero, <<>>, 0)
    ELSE IF op.stage = "boot"
         THEN IF op.fn = "f_mkfs" THEN Rq("disk_write", 0, W(0, 1), BootSector, 0)
              ELSE Rq("disk_read", 0, W(0, 1), <<>>, 0)
    ELSE IF op.stage = "blk" THEN Rq("disk_ioctl", 0, WZero, <<>>, GET_BLOCK_SIZE)
    ELSE IF op.stage = "cnt" THEN Rq("disk_ioctl", 0, WZero, <<>>, GET_SECTOR_COUNT)
    ELSE IF op.stage = "sync" THEN Rq("disk_ioctl", 0, WZero, <<>>, CTRL_SYNC)
    ELSE IF op.stage = "time" THEN Rq("get_fattime", 0, WZero, <<>>, 0)
    ELSE IF op.stage = "loop" /\ op.fn = "f_write" THEN WriteRequest(op, g.fil)
    ELSE IF op.stage = "loop" /\ op.fn = "f_read" THEN ReadRequest(op, g.fil)
    ELSE NoRq

Stage(op, s) == [op EXCEPT !.stage = s]

Step(op, g) == [op |-> op, g |-> g]

\* f_mkfs: the volume is taken out of service, the drive initialised, its
\* geometry asked for, the boot sector written and the drive synchronised
MkfsAdvance(op, g, o) ==
    IF op.stage = "start"
    THEN LET g1 == IF g.FatFs THEN [g EXCEPT !.fs.fs_type = 0] ELSE g
         IN  IF HasBit(o.ret, STA_NOINIT) THEN Step(Done(op, FRESULT_FR_NOT_READY), g1)
             ELSE IF HasBit(o.ret, STA_PROTECT)
                  THEN Step(Done(op, FRESULT_FR_WRITE_PROTECTED), g1)
             ELSE Step(Stage(op, "blk"), g1)
    ELSE IF op.stage = "blk" THEN Step(Stage(op, "cnt"), g)
    ELSE IF o.ret # DRESULT_RES_OK THEN Step(Done(op, FRESULT_FR_DISK_ERR), g)
    ELSE IF op.stage = "cnt"
         THEN IF (IF o.outWidth > 0 THEN o.outValue ELSE 0) < MinVolume
              THEN Step(Done(op, FRESULT_FR_MKFS_ABORTED), g)
              ELSE Step(Stage(op, "boot"), g)
    ELSE IF op.stage = "boot" THEN Step(Stage(op, "sync"), g)
    ELSE Step(Done(op, FRESULT_FR_OK), g)

\* mounting the volume (f_mount with opt = 1, and f_open on a volume that is
\* registered but not mounted): initialise the drive, read sector 0, accept
\* it if it carries the boot signature
VolumeAdvance(op, g, o) ==
    IF op.stage = "init"
    THEN IF HasBit(o.ret, STA_NOINIT) THEN Step(Done(op, FRESULT_FR_NOT_READY), g)
         ELSE IF op.fn = "f_open" /\ HasBit(o.ret, STA_PROTECT)
              THEN Step(Done(op, FRESULT_FR_WRITE_PROTECTED), g)
         ELSE Step(Stage(op, "boot"), g)
    ELSE IF o.ret # DRESULT_RES_OK THEN Step(Done(op, FRESULT_FR_DISK_ERR), g)
    ELSE IF ~HasBootSignature(o.data) THEN Step(Done(op, FRESULT_FR_NO_FILESYSTEM), g)
    ELSE LET id == (g.Fsid + 1) % B16
             g1 == [g EXCEPT !.fs = [fs_type |-> FS_FAT32, id |-> id], !.Fsid = id]
         IN  IF op.fn = "f_open" THEN Step(Stage(op, "time"), g1)
             ELSE Step(Done(op, FRESULT_FR_OK), g1)

\* f_mount: the work area is cleared and registered, then the volume mounted
MountAdvance(op, g, o) ==
    IF op.stage = "start"
    THEN Step(Stage(op, "init"), [g EXCEPT !.fs.fs_type = 0, !.FatFs = TRUE])
    ELSE VolumeAdvance(op, g, o)

\* f_open with CreateAlways | Read | Write: the volume is checked (and
\* mounted if it is not), then an empty file is created and stamped
OpenAdvance(op, g, o) ==
    IF op.stage = "start"
    THEN IF ~g.FatFs THEN Step(Done(op, FRESULT_FR_NOT_ENABLED), g)
         ELSE IF g.fs.fs_type # 0 THEN Step(Stage(op, "stat"), g)
         ELSE Step(Stage(op, "init"), g)
    ELSE IF op.stage = "stat"
         THEN IF HasBit(o.ret, STA_NOINIT)
              THEN Step(Stage(op, "init"), [g EXCEPT !.fs.fs_type = 0])
              ELSE IF HasBit(o.ret, STA_PROTECT)
                   THEN Step(Done(op, FRESULT_FR_WRITE_PROTECTED), g)
              ELSE Step(Stage(op, "time"), g)
    ELSE IF op.stage = "time"
         THEN Step(Done(op, FRESULT_FR_OK),
                   [g EXCEPT !.fil = [FIL_default EXCEPT !.open = TRUE, !.id = g.fs.id]])
    ELSE VolumeAdvance(op, g, o)

\* the handle belongs to the mounted volume
ValidObject(g) == g.fil.open /\ g.fs.fs_type # 0 /\ g.fil.id = g.fs.id

\* f_write, one pass of its loop: at a sector boundary a dirty cache is
\* written back first; whole sectors go from the caller's buffer to the
\* medium directly; the rest of the data goes to the file's sector cache
WriteAdvance(op, g, o) ==
    LET f == g.fil
        btw == Len(op.wbuf)
        sect == FileSector(f)
        cc == btw \div SECTOR_SIZE
        fail == Step(Done(op, FRESULT_FR_DISK_ERR), g)
        moved(fc, wcnt) ==
            Step([op EXCEPT !.wbuf = SubSeq(op.wbuf, wcnt + 1, btw), !.n = @ + wcnt],
                 [g EXCEPT !.fil = [fc EXCEPT !.fptr = f.fptr + wcnt,
                                              !.objsize = Max(f.objsize, f.fptr + wcnt)]])
        partial(fc) ==
            LET off == f.fptr % SECTOR_SIZE
                wcnt == Min(SECTOR_SIZE - off, btw)
            IN  moved([fc EXCEPT !.buf = [i \in 1..SECTOR_SIZE |->
                                             IF i > off /\ i <= off + wcnt
                                             THEN op.wbuf[i - off] ELSE fc.buf[i]],
                                 !.dirty = TRUE],
                      wcnt)
    IN  IF btw = 0 THEN Step(Done(op, FRESULT_FR_OK), g)
        ELSE IF f.fptr % SECTOR_SIZE # 0 THEN partial(f)
        ELSE IF f.dirty
             THEN IF o.ret # DRESULT_RES_OK THEN fail
                  ELSE Step(op, [g EXCEPT !.fil.dirty = FALSE])
        ELSE IF cc > 0
             THEN IF o.ret # DRESULT_RES_OK THEN fail
                  ELSE moved(IF CacheInRun(f, sect, cc)
                             THEN [f EXCEPT !.buf = SubSeq(op.wbuf,
                                                      (f.sect - sect) * SECTOR_SIZE + 1,
                                                      (f.sect - sect + 1) * SECTOR_SIZE),
                                            !.dirty = FALSE]
                             ELSE f,
                             SECTOR_SIZE * cc)
        ELSE IF f.sect # sect /\ f.fptr < f.objsize
             THEN IF o.ret # DRESULT_RES_OK THEN fail
                  ELSE partial([f EXCEPT !.buf = IF o.touched THEN o.data ELSE @,
                                         !.sect = sect])
        ELSE partial([f EXCEPT !.sect = sect])

\* f_read, one pass of its loop: whole sectors come from the medium into the
\* caller's buffer directly (a dirty cached sector overrides what the medium
\* holds); the rest comes through the file's sector cache
ReadAdvance(op, g, o) ==
    LET f == g.fil
        sect == FileSector(f)
        cc == op.btr \div SECTOR_SIZE
        fail == Step(Done(op, FRESULT_FR_DISK_ERR), g)
        moved(fc, bytes) ==
            Step([op EXCEPT !.rbuf = @ \o bytes, !.btr = @ - Len(bytes), !.n = @ + Len(bytes)],
                 [g EXCEPT !.fil = [fc EXCEPT !.fptr = f.fptr + Len(bytes)]])
        partial(fc) ==
            LET off == f.fptr % SECTOR_SIZE
                rcnt == Min(SECTOR_SIZE - off, op.btr)
            IN  moved(fc, SubSeq(fc.buf, off + 1, off + rcnt))
    IN  IF op.btr = 0 THEN Step(Done(op, FRESULT_FR_OK), g)
        ELSE IF f.fptr % SECTOR_SIZE # 0 THEN partial(f)
        ELSE IF cc > 0
             THEN IF o.ret # DRESULT_RES_OK THEN fail
                  ELSE LET base == (f.sect - sect) * SECTOR_SIZE
                           cached(i) == /\ f.dirty
                                        /\ CacheInRun(f, sect, cc)
                                        /\ i > base
                                        /\ i <= base + SECTOR_SIZE
                       IN  moved(f, [i \in 1..(SECTOR_SIZE * cc) |->
                                        IF cached(i) THEN f.buf[i - base]
                                        ELSE IF o.touched /\ i <= Len(o.data) THEN o.data[i]
                                        ELSE 0])
        ELSE IF f.sect = sect THEN partial(f)
        ELSE IF f.dirty
             THEN IF o.ret # DRESULT_RES_OK THEN fail
                  ELSE Step(op, [g EXCEPT !.fil.dirty = FALSE])
        ELSE IF o.ret # DRESULT_RES_OK THEN fail
             ELSE partial([f EXCEPT !.buf = IF o.touched THEN o.data ELSE @, !.sect = sect])

\* f_write, f_read and f_lseek(0): the handle is validated and the drive's
\* status asked for before anything else
FileAdvance(op, g, o) ==
    IF op.stage = "start"
    THEN IF ValidObject(g) THEN Step(Stage(op, "stat"), g)
         ELSE Step(Done(op, FRESULT_FR_INVALID_OBJECT), g)
    ELSE IF op.stage = "stat"
         THEN IF HasBit(o.ret, STA_NOINIT) THEN Step(Done(op, FRESULT_FR_INVALID_OBJECT), g)
              ELSE IF op.fn = "f_lseek"
                   THEN Step(Done(op, FRESULT_FR_OK), [g EXCEPT !.fil.fptr = 0])
              ELSE IF op.fn = "f_read"
                   THEN Step([Stage(op, "loop") EXCEPT
                                  !.btr = Min(op.btr, g.fil.objsize - g.fil.fptr)], g)
              ELSE Step(Stage(op, "loop"), g)
    ELSE IF op.fn = "f_write" THEN WriteAdvance(op, g, o)
    ELSE ReadAdvance(op, g, o)

\* the engine after the step of op whose bridge call (if any) came to o
EngineAdvance(op, g, o) ==
    IF op.fn = "f_mkfs" THEN MkfsAdvance(op, g, o)
    ELSE IF op.fn = "f_mount" THEN MountAdvance(op, g, o)
    ELSE IF op.fn = "f_open" THEN OpenAdvance(op, g, o)
    ELSE FileAdvance(op, g, o)

\* the bridge entry point a request names, called on the registry slot
BridgeDo(rq, reg, time) ==
    IF rq.fn = "disk_status" THEN disk_status(reg, 0)
    ELSE IF rq.fn = "disk_initialize" THEN disk_initialize(reg, 0)
    ELSE IF rq.fn = "disk_read"
         THEN disk_read(reg, rq.sector, rq.count, [res |-> DRESULT_RES_OK, wrote |-> FALSE])
    ELSE IF rq.fn = "disk_write" THEN disk_write(reg, rq.bytes, rq.sector, rq.count, 0)
    ELSE IF rq.fn = "disk_ioctl"
         THEN disk_ioctl(reg, rq.cmd, [res |-> DRESULT_RES_OK, data |-> CtrlSync])
    ELSE get_fattime(reg, time)

\* the one element of a singleton: a value computed once and then named
Only(S) == CHOOSE x \in S : TRUE

\* one step of the engine: its bridge call, if the step makes one, and what
\* the engine does with the outcome; a panic in the bridge or the driver
\* stops the step where it is
EngineStep(op, g, reg, time) ==
    Only({ Only({ IF o.panic
                  THEN [op |-> op, g |-> g, reg |-> o.reg, panic |-> TRUE, drv |-> o.drv]
                  ELSE Only({ [op |-> a.op, g |-> a.g, reg |-> o.reg,
                               panic |-> FALSE, drv |-> o.drv]
                              : a \in {EngineAdvance(op, g, o)} })
                  : o \in {IF rq.fn = "none" THEN BridgeOut(reg, 0, <<>>)
                           ELSE BridgeDo(rq, reg, time)} })
           : rq \in {EngineRequest(op, g)} })

\* a whole engine call, run without interruption
RECURSIVE EngineRun(_, _, _, _)
EngineRun(op, g, reg, time) ==
    IF op.stage = "done" THEN [op |-> op, g |-> g, reg |-> reg, panic |-> FALSE]
    ELSE Only({ IF s.panic THEN [op |-> s.op, g |-> s.g, reg |-> s.reg, panic |-> TRUE]
                ELSE EngineRun(s.op, s.g, s.reg, time)
                : s \in {EngineStep(op, g, reg, time)} })

----------------------------------------------------------------------------
(* The session API: the methods of RawFileSystem (lib.rs), each a call of  *)
(* the engine and the mapping of its result.  Enter gives the engine state *)
(* and the engine call a method starts with; map_result is what it returns *)
(* once the call is done.                                                  *)

\* written data: Len bytes, none of them zero, different for each seed
Pattern(len, seed) == [i \in 1..len |-> 1 + ((seed * 100 + i) % 255)]

\* lib.rs:335-344  open(path, CreateAlways | Read | Write)
RawFileSystem_open(g) == Step(NewOp("f_open", <<>>, 0), g)

\* lib.rs:358-367  read(file, buffer): buffer.len() bytes are asked for
RawFileSystem_read(g, len) == Step(NewOp("f_read", <<>>, len), g)

\* lib.rs:370-379  write(file, buffer)
RawFileSystem_write(g, buffer) == Step(NewOp("f_write", buffer, 0), g)

\* lib.rs:382-390  seek(file, 0)
RawFileSystem_seek(g) == Step(NewOp("f_lseek", <<>>, 0), g)

\* a mount that hands the engine the state it finds
RawFileSystem_mount_keep(g) == Step(NewOp("f_mount", <<>>, 0), g)

\* lib.rs:639-649  mount(): self.fs = FATFS::default(), then f_mount(&fs, "", 1)
RawFileSystem_mount(g) == Step(NewOp("f_mount", <<>>, 0), [g EXCEPT !.fs = FATFS_default])

\* lib.rs:652-668  mkfs("", FAT32, 0, 0, 0, 0) with a work area of one sector
RawFileSystem_mkfs(g) == Step(NewOp("f_mkfs", <<>>, 0), g)

Methods == {"mkfs", "mount", "open", "write", "seek", "read"}

Enter(method, g, len, seed) ==
    IF method = "mkfs" THEN RawFileSystem_mkfs(g)
    ELSE IF method = "mount" THEN RawFileSystem_mount(g)
    ELSE IF method = "open" THEN RawFileSystem_open(g)
    ELSE IF method = "write" THEN RawFileSystem_write(g, Pattern(len, seed))
    ELSE IF method = "seek" THEN RawFileSystem_seek(g)
    ELSE RawFileSystem_read(g, len)

----------------------------------------------------------------------------
(* The state *)

engineVars == <<fs, FatFs, Fsid, fil>>

sessionVars == <<sres, trip>>

taskVars == <<FS_locked, DRIVER_locked, guard, pc, cur, snap, clean, ran>>

vars == <<build, DRIVER, installs, last, panicked, engineVars, sessionVars, taskVars,
          probe>>

\* tasks of the application
NumTasks == 2

Tasks == 1..NumTasks

\* the engine state as one value
G == [fs |-> fs, FatFs |-> FatFs, Fsid |-> Fsid, fil |-> fil]

SetG(g) ==
    /\ fs' = g.fs
    /\ FatFs' = g.FatFs
    /\ Fsid' = g.Fsid
    /\ fil' = g.fil

\* the application before its first open: it holds no FIL at all
NoFile == [FIL_default EXCEPT !.buf = <<>>]

\* lib.rs:299-324  FS holds an unmounted FATFS; the engine knows no volume
EngineInit ==
    /\ fs = FATFS_default
    /\ FatFs = FALSE
    /\ Fsid = 0
    /\ fil = NoFile

\* the latest session operation: the method and what it returned
NoResult == [method |-> "none", res |-> SessionOk(0, <<>>)]

\* the round trip in progress: phase 1 after open returned Ok, 2 after the
\* write that followed, 3 after the seek that followed, 4 after the read of
\* as many bytes that followed; data what was written, ok whether the write
\* and the seek returned Ok (and the write its full length); formatted is
\* the set of drivers whose medium mkfs has formatted
NoTrip == [phase |-> 0, data |-> <<>>, ok |-> TRUE, formatted |-> {}]

SessionIdle ==
    /\ sres = NoResult
    /\ trip = NoTrip

NoSnap == [op |-> NoOp, g |-> [fs |-> FATFS_default, FatFs |-> FALSE, Fsid |-> 0,
                               fil |-> NoFile],
           reg |-> None]

NoRun == [task |-> 0, fn |-> "none", drv |-> <<>>, latest |-> 0]

\* no conversion made yet
NoProbe == [fn |-> "none", method |-> "none", arg |-> 0, out |-> SessionOk(0, <<>>)]

\* both mutexes are created unlocked; no task is inside the library
TasksIdle ==
    /\ FS_locked = FALSE
    /\ DRIVER_locked = FALSE
    /\ guard = [t \in Tasks |-> FALSE]
    /\ pc = [t \in Tasks |-> "idle"]
    /\ cur = [t \in Tasks |-> NoOp]
    /\ snap = [t \in Tasks |-> NoSnap]
    /\ clean = [t \in Tasks |-> TRUE]
    /\ ran = NoRun
    /\ probe = NoProbe

----------------------------------------------------------------------------
(* SpecBridge: one caller (the engine, or the application for install)     *)
(* calls install and the six bridge entry points in any order, with any    *)
(* arguments.  The DRIVER lock is free at every call: each call takes it,  *)
(* runs and releases it within its action.  A panic ends the program.      *)

BridgeInit ==
    /\ build \in Builds
    /\ DRIVER = None
    /\ installs = 0
    /\ last = NoCall
    /\ panicked = FALSE
    /\ EngineInit
    /\ SessionIdle
    /\ TasksIdle

\* the answers that matter: only an arbitrary driver is asked for one (an
\* empty slot and RamBlockStorage get one dummy answer)
AnswersOf(reg, answers) ==
    IF reg.kind # "Any" THEN {CHOOSE a \in answers : TRUE} ELSE answers

\* the sectors a call may name: only RamBlockStorage looks at the number
SectorsFor(reg) == IF reg.kind = "Ram" THEN TrackedSectors ELSE {0}

\* the call's outcome becomes the state
Finish(fn, cmd, count, buflen, out) ==
    /\ last' = Call(fn, cmd, count, buflen, DRIVER, out)
    /\ DRIVER' = out.reg
    /\ panicked' = out.panic
    /\ UNCHANGED <<build, probe, installs, engineVars, sessionVars, taskVars>>

BridgeInstall ==
    /\ ~panicked
    /\ installs < MaxInstalls
    /\ \E d \in NewDrivers(installs + 1) : DRIVER' = install(DRIVER, d)
    /\ installs' = installs + 1
    /\ UNCHANGED <<build, probe, last, panicked, engineVars, sessionVars, taskVars>>

CallDiskStatus ==
    /\ ~panicked
    /\ \E resp \in AnswersOf(DRIVER, StatusBytes) :
          Finish("disk_status", 0, WZero, WZero, disk_status(DRIVER, resp))

CallDiskInitialize ==
    /\ ~panicked
    /\ \E resp \in AnswersOf(DRIVER, StatusBytes) :
          Finish("disk_initialize", 0, WZero, WZero, disk_initialize(DRIVER, resp))

CallDiskRead ==
    /\ ~panicked
    /\ \E rq \in Requests, sector \in SectorsFor(DRIVER),
          resp \in AnswersOf(DRIVER, ReadAnswers) :
          Finish("disk_read", 0, rq.count, rq.buflen,
                 disk_read(DRIVER, sector, rq.count, resp))

CallDiskWrite ==
    /\ ~panicked
    /\ \E rq \in Requests, sector \in SectorsFor(DRIVER),
          resp \in AnswersOf(DRIVER, DiskResult), b \in DataBytes :
          Finish("disk_write", 0, rq.count, rq.buflen,
                 disk_write(DRIVER, Fill(b), sector, rq.count, resp))

CallDiskIoctl ==
    /\ ~panicked
    /\ \E cmd \in Cmds :
       \E resp \in AnswersOf(IF cmd \in SupportedIoctl THEN DRIVER ELSE None, IoctlAnswers) :
          Finish("disk_ioctl", cmd, WZero, WZero, disk_ioctl(DRIVER, cmd, resp))

CallGetFattime ==
    /\ ~panicked
    /\ \E time \in (IF DRIVER = None THEN {CHOOSE t \in Times : TRUE} ELSE Times) :
          Finish("get_fattime", 0, WZero, WZero, get_fattime(DRIVER, time))

BridgeNext ==
    \/ BridgeInstall
    \/ CallDiskStatus
    \/ CallDiskInitialize
    \/ CallDiskRead
    \/ CallDiskWrite
    \/ CallDiskIoctl
    \/ CallGetFattime

SpecBridge == BridgeInit /\ [][BridgeNext]_vars

----------------------------------------------------------------------------
(* Properties of the bridge, checked under SpecBridge *)

IsRW == last.fn \in {"disk_read", "disk_write"}

Installed == last.before.kind # "None"

\* count * SECTOR_SIZE as a mathematical integer
DeclaredBytes == WideTimes(last.count, 512)

\* C3: before install has ever been called, every bridge entry point returns
\* its not-initialized / failure value: no driver method runs, the caller's
\* buffer is not written, nothing panics; status and initialize report the
\* STA_NOINIT bit, read/write/ioctl never report RES_OK, get_fattime is 0.
C3_BeforeInstall ==
    (installs = 0 /\ last.fn # "none") =>
        /\ ~last.out.panic
        /\ last.out.drv = <<>>
        /\ ~last.out.touched
        /\ last.out.outWidth = 0
        /\ last.fn \in {"disk_status", "disk_initialize"} => last.out.ret % 2 = 1
        /\ last.fn \in {"disk_read", "disk_write", "disk_ioctl"} =>
               last.out.ret \in DiskResult \ {0}
        /\ last.fn = "get_fattime" => last.out.fattime = W(0, 0)

C3_Witness ==
    /\ installs = 0
    /\ last.fn = "disk_initialize"
    /\ last.out.ret = 1

\* C7: for every disk_read or disk_write call made while a driver is
\* installed, the slice handed to the driver is exactly count * 512 bytes
\* long, for every count of the UINT range.
C7_SliceLenExact ==
    (IsRW /\ Installed) =>
        \A i \in DOMAIN last.out.drv : last.out.drv[i].len = DeclaredBytes

\* C8 as claimed: a read or write request whose buffer is really shorter or
\* longer than count * 512 bytes is rejected with a failure result and the
\* driver is not invoked.
C8_MismatchRejected ==
    (IsRW /\ last.buflen # DeclaredBytes) =>
        /\ last.out.drv = <<>>
        /\ ~last.out.panic
        /\ last.out.ret \in DiskResult \ {0}

\* C8 as amended: the bridge never sees the buffer's real size and rejects
\* nothing on it.  With a driver installed a mismatched request is forwarded:
\* the driver's method runs exactly once, on a slice of the declared length
\* (count * 512 in usize), and what it returns is returned; the only
\* bridge-side stop is the overflow panic of a build with overflow checks.
\* With an empty slot the call returns RES_ERROR as for any request.
C8_MismatchForwarded ==
    (IsRW /\ last.buflen # DeclaredBytes) =>
        LET overflow == build.usizeBits = 32 /\ DeclaredBytes.hi >= 65536
            wrapped == IF build.usizeBits = 32
                       THEN W(DeclaredBytes.hi % 65536, DeclaredBytes.lo)
                       ELSE DeclaredBytes
        IN  /\ ~Installed => (last.out.drv = <<>> /\ ~last.out.panic /\ last.out.ret = 1)
            /\ (Installed /\ build.overflow_checks /\ overflow) =>
                   (last.out.drv = <<>> /\ last.out.panic)
            /\ (Installed /\ ~(build.overflow_checks /\ overflow)) =>
                   /\ Len(last.out.drv) = 1
                   /\ last.out.drv[1].method = last.fn
                   /\ last.out.drv[1].len = wrapped
                   /\ ~last.out.panic => last.out.ret = last.out.drv[1].res

C8_Witness ==
    /\ last.fn = "disk_read"
    /\ last.count = W(0, 1)
    /\ last.buflen = W(0, 0)
    /\ Len(last.out.drv) = 1
    /\ last.out.ret = 0

\* the width stated for each opcode
C9_OpcodeWidth(cmd) == IF cmd = 1 THEN 4 ELSE IF cmd = 2 THEN 2 ELSE IF cmd = 3 THEN 4 ELSE 0

C9_TagWidth(tag) ==
    IF tag = "GetSectorCount" THEN 4
    ELSE IF tag = "GetSectorSize" THEN 2
    ELSE IF tag = "GetBlockSize" THEN 4
    ELSE 0

C9_OpcodeTag(cmd) ==
    IF cmd = 0 THEN "CtrlSync"
    ELSE IF cmd = 1 THEN "GetSectorCount"
    ELSE IF cmd = 2 THEN "GetSectorSize"
    ELSE "GetBlockSize"

C9_Case == last.fn = "disk_ioctl" /\ last.cmd \in 0..3 /\ Installed /\ ~last.out.panic

\* C9 as claimed: for a supported opcode with a driver installed the request
\* is built with a zero payload, and the number of bytes written to the
\* output buffer is the width of the request's tag alone (4, 2, 4, and 0
\* for CTRL_SYNC).
C9_WidthFromOpcode ==
    C9_Case =>
        /\ last.out.request = [tag |-> C9_OpcodeTag(last.cmd), value |-> 0]
        /\ last.out.outWidth = C9_OpcodeWidth(last.cmd)

\* C9 as amended: the request is built with a zero payload and handed to the
\* driver once; the number of bytes written is the width of the tag of the
\* value the driver LEFT in the request, and the bytes are that value's
\* payload.  When the driver keeps the tag it was given (RamBlockStorage
\* does) this is the width of the opcode (4, 2, 4, 0), a Sync request writes
\* nothing, and RamBlockStorage's answers are its geometry.
C9_WidthFromReply ==
    C9_Case =>
        /\ last.out.request = [tag |-> C9_OpcodeTag(last.cmd), value |-> 0]
        /\ Len(last.out.drv) = 1
        /\ last.out.outWidth = C9_TagWidth(last.out.reply.tag)
        /\ last.out.outWidth > 0 => last.out.outValue = last.out.reply.value
        /\ last.out.touched = (last.out.outWidth > 0)
        /\ last.out.reply.tag = last.out.request.tag =>
               last.out.outWidth = C9_OpcodeWidth(last.cmd)
        /\ last.before.kind = "Ram" =>
               /\ last.out.outWidth = C9_OpcodeWidth(last.cmd)
               /\ last.cmd = 1 => last.out.outValue * 512 = last.before.len
               /\ last.cmd = 2 => last.out.outValue = 512
               /\ last.cmd = 3 => last.out.outValue = 512

C9_Witness ==
    /\ C9_Case
    /\ last.cmd = 2
    /\ last.before.kind = "Ram"
    /\ last.out.outWidth = 2
    /\ last.out.outValue = 512

\* C10 as claimed: an unsupported opcode is a hard failure (a panic, not a
\* storage result) in every registry state; the driver is not invoked and
\* nothing is written.
C10_HardFailureAlways ==
    (last.fn = "disk_ioctl" /\ last.cmd \notin 0..3) =>
        /\ last.out.panic
        /\ last.out.drv = <<>>
        /\ last.out.outWidth = 0

\* C10 as amended: for an unsupported opcode the driver is never invoked and
\* nothing is written, in every registry state; the call panics when a
\* driver is installed, and returns RES_ERROR without panicking when the
\* slot is empty (the slot is looked at first).
C10_UnsupportedRejected ==
    (last.fn = "disk_ioctl" /\ last.cmd \notin 0..3) =>
        /\ last.out.drv = <<>>
        /\ last.out.outWidth = 0
        /\ ~last.out.touched
        /\ Installed => last.out.panic
        /\ ~Installed => (~last.out.panic /\ last.out.ret = 1)

C10_Witness ==
    /\ last.fn = "disk_ioctl"
    /\ last.cmd = 4
    /\ Installed
    /\ last.out.panic

\* C11: with a driver installed, every disk_read and disk_write call invokes
\* the driver's method of the same name exactly once and returns to the
\* engine the numeric code of the DiskResult that method returned (0..4).
C11_ForwardedOnce ==
    (IsRW /\ Installed) =>
        /\ Len(last.out.drv) = 1
        /\ last.out.drv[1].method = last.fn
        /\ last.out.drv[1].res # NoReturn =>
               /\ ~last.out.panic
               /\ last.out.ret = last.out.drv[1].res
               /\ last.out.ret \in DiskResult

\* C12: with a driver installed, whenever the driver's disk_ioctl returns a
\* failure (Error, WriteProtected, NotReady, ParameterError), the bridge's
\* disk_ioctl returns that same code to the engine, never RES_OK.
C12_IoctlFailurePassedUp ==
    (last.fn = "disk_ioctl" /\ Installed /\ Len(last.out.drv) = 1
        /\ last.out.drv[1].res \in DiskResult \ {DRESULT_RES_OK}) =>
        /\ ~last.out.panic
        /\ last.out.ret = last.out.drv[1].res

----------------------------------------------------------------------------
(* SpecSession: one caller, holding the FS guard as tests/tests.rs does,   *)
(* installs RAM drivers and calls session operations in any order; each    *)
(* operation runs to its end within its action.  On a valid file handle   *)
(* the caller does what the test does: it writes once to the file it has   *)
(* created, seeks to 0 and reads; on a handle that is not valid it may     *)
(* call anything.                                                          *)

\* buffer lengths: 0, 1, the test's 12, and the lengths around one sector
Sizes == {0, 1, 12, SECTOR_SIZE - 1, SECTOR_SIZE, SECTOR_SIZE + 1}

Seeds == {1}

\* the builds of the test: a 32- or 64-bit target, debug profile, chrono on
SessionBuilds == {b \in Builds : b.chrono /\ b.overflow_checks}

\* the clock's answer reaches nothing the model keeps
AnyTime == CHOOSE t \in Times : TRUE

SessionInit ==
    /\ build \in SessionBuilds
    /\ DRIVER = None
    /\ installs = 0
    /\ last = NoCall
    /\ panicked = FALSE
    /\ EngineInit
    /\ SessionIdle
    /\ TasksIdle

TripNext(method, len, seed, res) ==
    LET formatted == IF method = "mkfs" /\ res.ok /\ DRIVER # None
                     THEN trip.formatted \cup {DRIVER.id} ELSE trip.formatted
        none == [NoTrip EXCEPT !.formatted = formatted]
    IN  IF method = "open" /\ res.ok THEN [none EXCEPT !.phase = 1]
        ELSE IF method = "write" /\ trip.phase = 1
             THEN [none EXCEPT !.phase = 2, !.data = Pattern(len, seed),
                               !.ok = res.ok /\ res.n = len]
        ELSE IF method = "seek" /\ trip.phase = 2
             THEN [trip EXCEPT !.phase = 3, !.ok = trip.ok /\ res.ok]
        ELSE IF method = "read" /\ trip.phase = 3 /\ len = Len(trip.data)
             THEN [trip EXCEPT !.phase = 4]
        ELSE none

\* a session method called and run to its return (or to a panic)
SessionCall(method, len, seed) ==
    /\ ~panicked
    /\ \E en \in {Enter(method, G, len, seed)} :
       \E r \in {EngineRun(en.op, en.g, DRIVER, AnyTime)} :
       \E res \in {IF r.panic THEN SessionPanic
                   ELSE map_result(r.op.res, r.op.n, r.op.rbuf)} :
           /\ SetG(r.g)
           /\ DRIVER' = r.reg
           /\ panicked' = res.panic
           /\ sres' = [method |-> method, res |-> res]
           /\ trip' = TripNext(method, len, seed, res)
    /\ UNCHANGED <<build, probe, installs, last, taskVars>>

\* tests.rs:12-13
SessionInstall ==
    /\ ~panicked
    /\ installs < MaxInstalls
    /\ DRIVER' = install(DRIVER, RamBlockStorage_new(installs + 1))
    /\ installs' = installs + 1
    /\ sres' = [NoResult EXCEPT !.method = "install"]
    /\ trip' = [NoTrip EXCEPT !.formatted = trip.formatted]
    /\ UNCHANGED <<build, probe, last, panicked, engineVars, taskVars>>

\* tests.rs:16
SessionMkfs == SessionCall("mkfs", 0, 0)

\* tests.rs:18
SessionMount == Fsid < MaxMounts /\ SessionCall("mount", 0, 0)

\* tests.rs:20
SessionOpen == Fsid < MaxMounts /\ SessionCall("open", 0, 0)

\* tests.rs:22
SessionWrite ==
    /\ trip.phase = 1 \/ ~ValidObject(G)
    /\ \E len \in Sizes, seed \in Seeds : SessionCall("write", len, seed)

\* tests.rs:24
SessionSeek ==
    /\ trip.phase = 2 \/ ~ValidObject(G)
    /\ SessionCall("seek", 0, 0)

\* tests.rs:27
SessionRead ==
    /\ trip.phase = 3 \/ ~ValidObject(G)
    /\ \E len \in Sizes : SessionCall("read", len, 0)

SessionNext ==
    \/ SessionInstall
    \/ SessionMkfs
    \/ SessionMount
    \/ SessionOpen
    \/ SessionWrite
    \/ SessionSeek
    \/ SessionRead

SpecSession == SessionInit /\ [][SessionNext]_vars

\* C18: the slot is monotone.  It is empty exactly until the first install
\* has completed; an occupied slot stays occupied; the driver in the slot
\* is exchanged for another only by install, which always stores a driver;
\* an entry point leaves the slot holding the driver it found there, its
\* own state apart.
C18_SlotMonotone ==
    [][/\ (DRIVER = None) <=> (installs = 0)
       /\ DRIVER # None => DRIVER' # None
       /\ (DRIVER'.kind # DRIVER.kind \/ DRIVER'.id # DRIVER.id) =>
              /\ installs' = installs + 1
              /\ DRIVER'.kind \in {"Ram", "Any"}
              /\ DRIVER'.id = installs'
      ]_vars

\* with a driver installed, an entry point has called one of its methods
\* and the slot still holds that driver
C18_Witness ==
    /\ installs > 0
    /\ last.fn = "disk_write"
    /\ Len(last.out.drv) = 1
    /\ last.before.id = installs
    /\ DRIVER.id = installs

----------------------------------------------------------------------------
(* Properties of the session, checked under SpecSession *)

\* C5: on a formatted and mounted volume, writing N bytes at offset 0 to a
\* freshly created file, seeking to 0 and reading N bytes returns Ok from
\* all three calls and exactly the bytes written, for N in
\* {0, 1, 12, 511, 512, 513}.
C5_RoundTrip ==
    trip.phase = 4 =>
        /\ trip.ok
        /\ sres.res.ok
        /\ sres.res.n = Len(trip.data)
        /\ sres.res.data = trip.data

C5_Witness ==
    /\ trip.phase = 4
    /\ Len(trip.data) = SECTOR_SIZE + 1
    /\ sres.res.ok
    /\ sres.res.data = trip.data

\* C6: with a driver installed, mkfs returns Ok; mount returns Ok once mkfs
\* has formatted the installed driver's medium, and Err(NoFileSystem) while
\* that medium has never been formatted.
C6_Lifecycle ==
    DRIVER # None =>
        /\ sres.method = "mkfs" => sres.res.ok
        /\ (sres.method = "mount" /\ DRIVER.id \in trip.formatted) => sres.res.ok
        /\ (sres.method = "mount" /\ DRIVER.id \notin trip.formatted) =>
               sres.res = SessionErr("NoFileSystem")

C6_Witness ==
    /\ DRIVER # None
    /\ sres.method = "mount"
    /\ DRIVER.id \in trip.formatted
    /\ sres.res.ok
    /\ fs.fs_type = FS_FAT32

----------------------------------------------------------------------------
(* Spec: the tasks of an application.  Each task locks FS, calls session   *)
(* methods through the guard, drops the guard, and installs drivers, in    *)
(* any order.  A session method runs the engine step by step; a step that  *)
(* needs the medium enters a bridge entry point, which takes the DRIVER    *)
(* lock, calls the driver and releases the lock.  Steps of different tasks *)
(* interleave freely: the two mutexes are the only synchronisation.        *)

\* lib.rs:292,299  FS.lock() hands out the guard only while none exists
FS_lock_shared(locked) == TRUE

FS_lock(locked) == ~locked

\* a DRIVER mutex that never makes a caller wait
DRIVER_lock_shared(locked) == TRUE

\* diskio.rs:49  DRIVER.lock() likewise
DRIVER_lock(locked) == ~locked

\* diskio_bindings.rs:27,36,45,55,65,91  the locks an entry point takes
BridgeLocks_with_session == {"DRIVER", "FS"}

BridgeLocks == {"DRIVER"}

\* whether a lock can be taken now
CanTake(l) == IF l = "FS" THEN FS_lock(FS_locked) ELSE DRIVER_lock(DRIVER_locked)

\* the length of the buffers the tasks write and read
ConcLen == SECTOR_SIZE + 1

\* the build the tasks run in: what the locks do depends on none of its
\* settings
TaskBuilds == {b \in SessionBuilds : b.usizeBits = 64}

Init ==
    /\ build \in TaskBuilds
    /\ DRIVER = None
    /\ installs = 0
    /\ last = NoCall
    /\ panicked = FALSE
    /\ EngineInit
    /\ SessionIdle
    /\ TasksIdle

\* FS.lock().await returns the guard
LockFS(t) ==
    /\ ~panicked
    /\ pc[t] = "idle"
    /\ ~guard[t]
    /\ FS_lock(FS_locked)
    /\ FS_locked' = TRUE
    /\ guard' = [guard EXCEPT ![t] = TRUE]
    /\ UNCHANGED <<build, probe, DRIVER, installs, last, panicked, engineVars, sessionVars,
                   DRIVER_locked, pc, cur, snap, clean, ran>>

\* the guard is dropped
UnlockFS(t) ==
    /\ ~panicked
    /\ pc[t] = "idle"
    /\ guard[t]
    /\ FS_locked' = FALSE
    /\ guard' = [guard EXCEPT ![t] = FALSE]
    /\ UNCHANGED <<build, probe, DRIVER, installs, last, panicked, engineVars, sessionVars,
                   DRIVER_locked, pc, cur, snap, clean, ran>>

\* diskio.rs:57  install: DRIVER.lock().await returns
InstallAcquire(t) ==
    /\ ~panicked
    /\ pc[t] = "idle"
    /\ installs < MaxInstalls
    /\ DRIVER_lock(DRIVER_locked)
    /\ DRIVER_locked' = TRUE
    /\ pc' = [pc EXCEPT ![t] = "install"]
    /\ UNCHANGED <<build, probe, DRIVER, installs, last, panicked, engineVars, sessionVars,
                   FS_locked, guard, cur, snap, clean, ran>>

\* diskio.rs:57  install: replace(boxed_driver), and the lock is released
InstallReplace(t) ==
    /\ ~panicked
    /\ pc[t] = "install"
    /\ DRIVER' = install(DRIVER, RamBlockStorage_new(installs + 1))
    /\ installs' = installs + 1
    /\ DRIVER_locked' = FALSE
    /\ pc' = [pc EXCEPT ![t] = "idle"]
    /\ clean' = [u \in Tasks |-> pc[u] \notin {"engine", "bridge"}]
    /\ UNCHANGED <<build, probe, last, panicked, engineVars, sessionVars,
                   FS_locked, guard, cur, snap, ran>>

\* a session method is entered through the guard (lib.rs:335-668): the
\* engine call starts on the session state as it is now
OpStart(t, method) ==
    /\ ~panicked
    /\ pc[t] = "idle"
    /\ guard[t]
    /\ method \in {"mount", "open"} => Fsid < MaxMounts
    /\ method = "write" => (fil.fptr = 0 \/ ~ValidObject(G))
    /\ \E en \in {Enter(method, G, ConcLen, t)} :
          /\ SetG(en.g)
          /\ cur' = [cur EXCEPT ![t] = en.op]
          /\ snap' = [snap EXCEPT ![t] = [op |-> en.op, g |-> en.g, reg |-> DRIVER]]
    /\ clean' = [clean EXCEPT ![t] = TRUE]
    /\ pc' = [pc EXCEPT ![t] = "engine"]
    /\ UNCHANGED <<build, probe, DRIVER, installs, last, panicked, sessionVars,
                   FS_locked, DRIVER_locked, guard, ran>>

\* a step of the engine that needs no storage access
EngineInternal(t) ==
    /\ ~panicked
    /\ pc[t] = "engine"
    /\ cur[t].stage # "done"
    /\ EngineRequest(cur[t], G).fn = "none"
    /\ \E s \in {EngineStep(cur[t], G, DRIVER, AnyTime)} :
          /\ SetG(s.g)
          /\ cur' = [cur EXCEPT ![t] = s.op]
    /\ UNCHANGED <<build, probe, DRIVER, installs, last, panicked, sessionVars,
                   FS_locked, DRIVER_locked, guard, pc, snap, clean, ran>>

\* the engine calls a bridge entry point: block_on(DRIVER.lock()) returns
BridgeAcquire(t) ==
    /\ ~panicked
    /\ pc[t] = "engine"
    /\ cur[t].stage # "done"
    /\ EngineRequest(cur[t], G).fn # "none"
    /\ \A l \in BridgeLocks : CanTake(l)
    /\ DRIVER_locked' = TRUE
    /\ pc' = [pc EXCEPT ![t] = "bridge"]
    /\ UNCHANGED <<build, probe, DRIVER, installs, last, panicked, engineVars, sessionVars,
                   FS_locked, guard, cur, snap, clean, ran>>

\* the entry point calls the driver and returns to the engine; its guard
\* of DRIVER is dropped at the return
BridgeCall(t) ==
    /\ ~panicked
    /\ pc[t] = "bridge"
    /\ \E s \in {EngineStep(cur[t], G, DRIVER, AnyTime)} :
          /\ SetG(s.g)
          /\ cur' = [cur EXCEPT ![t] = s.op]
          /\ DRIVER' = s.reg
          /\ panicked' = s.panic
          /\ ran' = [task |-> t, fn |-> EngineRequest(cur[t], G).fn, drv |-> s.drv,
                     latest |-> installs]
    /\ DRIVER_locked' = FALSE
    /\ pc' = [pc EXCEPT ![t] = "engine"]
    /\ UNCHANGED <<build, probe, installs, last, sessionVars, FS_locked, guard, snap, clean>>

\* the engine call returns and the method maps its result (lib.rs:339-343)
Return(t) ==
    /\ ~panicked
    /\ pc[t] = "engine"
    /\ cur[t].stage = "done"
    /\ panicked' = map_result(cur[t].res, cur[t].n, cur[t].rbuf).panic
    /\ cur' = [cur EXCEPT ![t] = NoOp]
    /\ snap' = [snap EXCEPT ![t] = NoSnap]
    /\ clean' = [clean EXCEPT ![t] = TRUE]
    /\ ran' = NoRun
    /\ pc' = [pc EXCEPT ![t] = "idle"]
    /\ UNCHANGED <<build, probe, DRIVER, installs, last, engineVars, sessionVars,
                   FS_locked, DRIVER_locked, guard>>

Next ==
    \E t \in Tasks :
        \/ LockFS(t)
        \/ UnlockFS(t)
        \/ InstallAcquire(t)
        \/ InstallReplace(t)
        \/ \E method \in Methods : OpStart(t, method)
        \/ EngineInternal(t)
        \/ BridgeAcquire(t)
        \/ BridgeCall(t)
        \/ Return(t)

Spec == Init /\ [][Next]_vars

----------------------------------------------------------------------------
(* Properties of the tasks, checked under Spec *)

\* the tasks inside a session method
InSession == {t \in Tasks : pc[t] \in {"engine", "bridge"}}

\* the engine call of task t has run to its return
Returning(t) == pc[t] = "engine" /\ cur[t].fn # "none" /\ cur[t].stage = "done"

\* what the engine call of task t gives when it runs alone, from the session
\* and the medium it started on
Alone(t) == EngineRun(snap[t].op, snap[t].g, snap[t].reg, AnyTime)

\* C1: every session operation runs while its caller holds the FS mutex and
\* at most one task holds that mutex at a time; so an operation that no
\* install interrupted returns, and leaves behind, exactly what it would
\* have if it had run alone from the state it started on: the operations of
\* the tasks (a read and a write on the same file among them) take effect
\* one entirely after the other.
C1_Serialized ==
    /\ Cardinality({t \in Tasks : guard[t]}) <= 1
    /\ Cardinality(InSession) <= 1
    /\ \A t \in InSession : guard[t] /\ FS_locked
    /\ \A t \in Tasks :
          (Returning(t) /\ clean[t] /\ ~panicked) =>
              /\ ~Alone(t).panic
              /\ Alone(t).op = cur[t]
              /\ Alone(t).g = G
              /\ Alone(t).reg = DRIVER

\* a task has read, whole, what another task wrote to the same file
C1_Witness ==
    \E t, w \in Tasks :
        /\ t # w
        /\ Returning(t)
        /\ clean[t]
        /\ cur[t].fn = "f_read"
        /\ cur[t].res = FRESULT_FR_OK
        /\ cur[t].rbuf = Pattern(ConcLen, w)

\* Spec with the scheduling the code relies on: a task inside the library
\* keeps running (no step there suspends but the acquisition of a lock); an
\* entry point polling the DRIVER lock (block_on) gets it if it is free
\* again and again; a caller drops its FS guard after finitely many
\* operations
FairSpec ==
    /\ Spec
    /\ \A t \in Tasks :
          /\ WF_vars(EngineInternal(t))
          /\ WF_vars(BridgeCall(t))
          /\ WF_vars(Return(t))
          /\ WF_vars(InstallReplace(t))
          /\ SF_vars(BridgeAcquire(t))
          /\ SF_vars(UnlockFS(t))

\* task t holds the DRIVER lock: it is inside install or an entry point
HoldsRegistry(t) == pc[t] \in {"install", "bridge"}

\* task t, holding the FS lock, waits for the DRIVER lock
WaitsForRegistry(t) ==
    /\ pc[t] = "engine"
    /\ guard[t]
    /\ cur[t].stage # "done"
    /\ EngineRequest(cur[t], G).fn # "none"
    /\ DRIVER_locked

\* C2: the lock order is acyclic.  The DRIVER lock is taken under the FS
\* lock (by an entry point) or under no lock (by install); its holder needs
\* no further lock to finish and release it.  So, while no driver method
\* panics, some task can always take a step (no deadlock), every started
\* session operation and every install returns with the DRIVER lock
\* released, and every FS guard is dropped.
C2_NoDeadlock ==
    /\ [](/\ DRIVER_locked <=> (\E t \in Tasks : HoldsRegistry(t))
          /\ Cardinality({t \in Tasks : HoldsRegistry(t)}) <= 1
          /\ \A t \in Tasks :
                (HoldsRegistry(t) /\ ~panicked) =>
                    ENABLED (BridgeCall(t) \/ InstallReplace(t))
          /\ ~panicked => ENABLED Next)
    /\ \A t \in Tasks : (pc[t] # "idle") ~> ((pc[t] = "idle" /\ ~HoldsRegistry(t)) \/ panicked)
    /\ \A t \in Tasks : guard[t] ~> (~guard[t] \/ panicked)

\* a task inside a session operation waits for the DRIVER lock while another
\* task is inside install
C2_Witness ==
    \E t, u \in Tasks : t # u /\ WaitsForRegistry(t) /\ pc[u] = "install"

\* C4: once install(A) and then install(B) have completed, the registry
\* holds B: the slot holds the driver of the latest completed install, and
\* every driver method an entry point runs is a method of the driver that
\* was the latest installed when the entry point took the lock; no method
\* of an earlier driver runs again.
C4_LatestDriverOnly ==
    /\ installs > 0 => (DRIVER.kind = "Ram" /\ DRIVER.id = installs)
    /\ installs = 0 => DRIVER = None
    /\ \A i \in DOMAIN ran.drv : ran.drv[i].id = ran.latest

\* after two installs an entry point has run a method of the second driver
C4_Witness ==
    /\ installs = 2
    /\ ran.latest = 2
    /\ ran.drv # <<>>
    /\ \A i \in DOMAIN ran.drv : ran.drv[i].id = 2

----------------------------------------------------------------------------
(* SpecPure: the conversions of the library applied on their own, to every *)
(* input of a bounded set: the result mapping of the session methods, the  *)
(* numeric-to-Error conversion, the results of putc/puts/gets and the two  *)
(* timestamp encodings.  A panic ends the program.                         *)

\* the largest result code tried, past the last code of the taxonomy
MaxCode == 24

\* u32 result codes: every code up to MaxCode and some large ones
Codes == 0..MaxCode \cup {255, B16 - 1, B16 * (B16 \div 2 - 1) + B16 - 1}

\* lib.rs:335-668, 671-679, 716-724  the methods that return the engine's
\* FRESULT through `if result == FRESULT_FR_OK { Ok } else { Err(try_from.unwrap) }`
FResultMethods ==
    {"open", "close", "read", "write", "seek", "truncate", "sync", "opendir",
     "closedir", "readdir", "findfirst", "findnext", "mkdir", "unlink", "rename",
     "stat", "chmod", "utime", "chdir", "chdrive", "getcwd", "getfree", "getlabel",
     "setlabel", "expand", "mount", "mkfs", "setcp", "unmount"}

\* a conversion was applied: it becomes the state
Probe(fn, method, arg, out, panic) ==
    /\ ~panicked
    /\ probe' = [fn |-> fn, method |-> method, arg |-> arg, out |-> out]
    /\ panicked' = panic
    /\ UNCHANGED <<build, DRIVER, installs, last, engineVars, sessionVars, taskVars>>

PureInit ==
    /\ build \in Builds
    /\ DRIVER = None
    /\ installs = 0
    /\ last = NoCall
    /\ panicked = FALSE
    /\ EngineInit
    /\ SessionIdle
    /\ TasksIdle

\* a session method gets result code v from the engine and returns
MethodReturns ==
    \E method \in FResultMethods, v \in Codes :
    \E out \in {map_result(v, 0, <<>>)} :
        Probe("map_result", method, v, out, out.panic)

\* Error::try_from(v): out.ok for Ok(e), with e in out.err
TryFrom ==
    \E v \in Codes :
    \E r \in {Error_try_from(v)} :
        Probe("try_from", "none", v, [SessionErr(r.e) EXCEPT !.ok = r.ok], FALSE)

\* int results of the engine's f_putc / f_puts: counts, and negative values
IntResults == {0 - (B16 * (B16 \div 2 - 1) + B16 - 1) - 1, 0 - 2, 0 - 1, 0, 1, 12, B16 * (B16 \div 2 - 1) + B16 - 1}

\* putc returns on the engine's result
Putc ==
    \E r \in IntResults : Probe("putc", "putc", r, putc(r), FALSE)

\* puts returns on the engine's result
Puts ==
    \E r \in IntResults : Probe("puts", "puts", r, puts(r), FALSE)

\* gets returns on the engine's pointer: arg 1 for non-null, 0 for null
Gets ==
    \E nonnull \in BOOLEAN :
        Probe("gets", "gets", IF nonnull THEN 1 ELSE 0, gets(nonnull), FALSE)

\* date-times with the year in 1980..2107: the first and the last moment
\* of a day of four years, with four values of the second
DateTimes ==
    {[year |-> y, month |-> e.month, day |-> e.day, hour |-> e.hour,
      minute |-> e.minute, second |-> s] :
        y \in {1980, 2000, 2024, 2107},
        e \in {[month |-> 1, day |-> 1, hour |-> 0, minute |-> 0],
               [month |-> 12, day |-> 31, hour |-> 23, minute |-> 59]},
        s \in {0, 1, 30, 59}}

\* the two call sites pack the same date-time: get_fattime through the
\* bridge with a driver installed, utime in the session.  out.data is the
\* upper and the lower half of get_fattime's DWORD, then fdate and ftime;
\* out.n is the second
Timestamps ==
    /\ build.chrono
    /\ \E time \in DateTimes :
       \E o \in {get_fattime(RamBlockStorage_new(1), time)} :
           Probe("get_fattime", "utime", time.year,
                 SessionOk(time.second, <<o.fattime.hi, o.fattime.lo,
                                          utime_fdate(time), utime_ftime(time)>>),
                 FALSE)

PureNext ==
    \/ MethodReturns
    \/ TryFrom
    \/ Putc
    \/ Puts
    \/ Gets
    \/ Timestamps

SpecPure == PureInit /\ [][PureNext]_vars

\* the numeric values of the taxonomy's variants
ErrorCodes == {Error[name] : name \in DOMAIN Error}

\* C13: a session method that returns the engine's result code returns Ok
\* exactly when the code is 0; for a non-zero code of the taxonomy it
\* returns Err with the variant whose value is that code; for a code outside
\* the taxonomy it panics (no fallback value).
C13_CodeMapping ==
    probe.fn = "map_result" =>
        /\ probe.out.ok <=> probe.arg = FRESULT_FR_OK
        /\ probe.out.ok => ~probe.out.panic
        /\ probe.arg \in ErrorCodes =>
               /\ ~probe.out.ok
               /\ ~probe.out.panic
               /\ probe.out.err \in DOMAIN Error
               /\ Error[probe.out.err] = probe.arg
        /\ probe.arg \notin ErrorCodes \cup {FRESULT_FR_OK} =>
               /\ probe.out.panic
               /\ ~probe.out.ok
               /\ probe.out.err = ""

\* rename got FR_NO_FILESYSTEM from the engine and returned Err(NoFileSystem)
C13_Witness ==
    /\ probe.fn = "map_result"
    /\ probe.method = "rename"
    /\ probe.arg = FRESULT_FR_NO_FILESYSTEM
    /\ probe.out.err = "NoFileSystem"
    /\ ~probe.out.panic

\* C14: Error::try_from(v) returns Ok(e) exactly when v is the numeric value
\* of a variant of the taxonomy, and then e is the variant whose value is v;
\* it returns Err(()) for 0 and for every value above the last code.
C14_TryFromExact ==
    probe.fn = "try_from" =>
        /\ probe.out.ok <=> probe.arg \in ErrorCodes
        /\ probe.out.ok =>
               /\ probe.out.err \in DOMAIN Error
               /\ Error[probe.out.err] = probe.arg
        /\ (probe.arg = 0 \/ probe.arg > FRESULT_FR_INVALID_PARAMETER) => ~probe.out.ok
        /\ ~probe.out.panic

\* the last code of the taxonomy converts to its variant
C14_Witness ==
    /\ probe.fn = "try_from"
    /\ probe.arg = FRESULT_FR_INVALID_PARAMETER
    /\ probe.out.ok
    /\ probe.out.err = "InvalidParameter"

\* C15: putc and puts return Ok(n) with the engine's count n whenever the
\* engine's result is >= 0 and Err(Denied) whenever it is negative; gets
\* returns Ok(()) for a non-null pointer and Err(Denied) for null; the three
\* produce no other error variant and never panic.
C15_SentinelMapping ==
    /\ probe.fn \in {"putc", "puts"} =>
          /\ probe.arg >= 0 => (probe.out.ok /\ probe.out.n = probe.arg)
          /\ probe.arg < 0 => (~probe.out.ok /\ probe.out.err = "Denied")
    /\ probe.fn = "gets" =>
          /\ probe.arg = 1 => probe.out.ok
          /\ probe.arg = 0 => (~probe.out.ok /\ probe.out.err = "Denied")
    /\ probe.fn \in {"putc", "puts", "gets"} =>
          /\ ~probe.out.panic
          /\ ~probe.out.ok => probe.out.err = "Denied"

\* putc got 0 from the engine and returned Ok(0)
C15_Witness ==
    /\ probe.fn = "putc"
    /\ probe.arg = 0
    /\ probe.out.ok
    /\ probe.out.n = 0

\* C16: install and the entry points exclude each other on the DRIVER lock.
\* At most one task is inside install or an entry point, and the lock is
\* held while one is; the slot is replaced only by the task inside install,
\* with no task inside an entry point (no driver method executing); a
\* driver method runs, and the driver's state changes, only in a step of
\* the task that holds the lock.
C16_RegistryExclusion ==
    [][/\ Cardinality({t \in Tasks : HoldsRegistry(t)}) <= 1
       /\ (\E t \in Tasks : HoldsRegistry(t)) => DRIVER_locked
       /\ (installs' # installs \/ DRIVER'.id # DRIVER.id) =>
              /\ \A t \in Tasks : pc[t] # "bridge"
              /\ \E t \in Tasks : pc[t] = "install" /\ pc'[t] = "idle"
       /\ (DRIVER' # DRIVER \/ (ran' # ran /\ ran'.drv # <<>>)) =>
              /\ DRIVER_locked
              /\ \E t \in Tasks : HoldsRegistry(t) /\ pc'[t] # pc[t]
      ]_vars

\* a driver method (disk_write) is executing under the lock while a driver
\* is installed and another install may still come
C16_Witness ==
    \E t \in Tasks :
        /\ pc[t] = "bridge"
        /\ DRIVER_locked
        /\ DRIVER # None
        /\ installs < MaxInstalls
        /\ EngineRequest(cur[t], G).fn = "disk_write"

\* C17: every mount call overwrites the session's FATFS with
\* FATFS::default() before the engine sees it, whatever it held: when a
\* method is entered, the engine call that starts is f_mount with the
\* all-default state (registered by the engine only in a later step), or
\* another call with the state left as it was; and while f_mount has not
\* taken its first step the state is all-default.
C17_MountFromDefault ==
    [][\A t \in Tasks :
           /\ (pc[t] = "idle" /\ pc'[t] = "engine") =>
                 /\ FatFs' = FatFs
                 /\ IF cur'[t].fn = "f_mount"
                    THEN fs' = FATFS_default /\ cur'[t].stage = "start"
                    ELSE fs' = fs
           /\ (pc[t] = "engine" /\ cur[t].fn = "f_mount" /\ cur[t].stage = "start") =>
                 fs = FATFS_default
      ]_vars

\* a mount entered after an earlier mount had succeeded and registered the
\* state: the engine is handed the all-default value again
C17_Witness ==
    \E t \in Tasks :
        /\ pc[t] = "engine"
        /\ cur[t].fn = "f_mount"
        /\ cur[t].stage = "start"
        /\ fs = FATFS_default
        /\ FatFs
        /\ Fsid > 0

\* C19: for every date-time with the year in 1980..2107 the DWORD of
\* get_fattime carries in its upper half the date word and in its lower
\* half the time word that utime computes for the same date-time.
C19_TimestampsAgree ==
    probe.fn = "get_fattime" =>
        /\ probe.out.data[1] = probe.out.data[3]
        /\ probe.out.data[2] = probe.out.data[4]

----------------------------------------------------------------------------
(* Single-threaded cooperative scheduling: the tasks share one thread and  *)
(* another task runs only when the running one suspends at an await.       *)
(* Checked under SpecCoop and FairCoop                                     *)

\* a pending install with an await between taking the lock and the replace
SuspensionPoints_in_install == {"idle", "install"}

\* where a task can be suspended.  install awaits nothing but the lock
\* itself (diskio.rs:57), the entry points (diskio_bindings.rs:25-107) and
\* the session methods (lib.rs:335-724) are not async, the trait's methods
\* (diskio.rs:36-45) neither: a task yields only between two library calls
SuspensionPoints == {"idle"}

\* task t runs: every other task is suspended
Scheduled(t) == \A u \in Tasks \ {t} : pc[u] \in SuspensionPoints

CoopNext ==
    \E t \in Tasks :
        \/ Scheduled(t) /\ LockFS(t)
        \/ Scheduled(t) /\ UnlockFS(t)
        \/ Scheduled(t) /\ InstallAcquire(t)
        \/ Scheduled(t) /\ InstallReplace(t)
        \/ Scheduled(t) /\ \E method \in Methods : OpStart(t, method)
        \/ Scheduled(t) /\ EngineInternal(t)
        \/ Scheduled(t) /\ BridgeAcquire(t)
        \/ Scheduled(t) /\ BridgeCall(t)
        \/ Scheduled(t) /\ Return(t)

SpecCoop == Init /\ [][CoopNext]_vars

\* the thread keeps executing the task that can run
FairCoop == SpecCoop /\ WF_vars(CoopNext)

\* task t is inside an entry point's block_on(DRIVER.lock())
AtBlockOn(t) ==
    /\ ~panicked
    /\ pc[t] = "engine"
    /\ cur[t].stage # "done"
    /\ EngineRequest(cur[t], G).fn # "none"

\* C20: no task is suspended while it holds the DRIVER lock: whenever the
\* lock is held, its holder is inside install or an entry point and not at
\* a point where it can yield.  So under cooperative scheduling the
\* block_on of an entry point finds the lock free, and returns.
C20_NeverFindsLockHeld ==
    /\ [](DRIVER_locked =>
             \E t \in Tasks : HoldsRegistry(t) /\ pc[t] \notin SuspensionPoints)
    /\ [](\A t \in Tasks : AtBlockOn(t) => DRIVER_lock(DRIVER_locked))
    /\ \A t \in Tasks : AtBlockOn(t) ~> (pc[t] = "bridge")

\* an entry point called by one task has taken the lock after both installs
\* have completed and while the other task, suspended, holds nothing
C20_Witness ==
    \E t \in Tasks : \E u \in Tasks \ {t} :
        /\ pc[t] = "bridge"
        /\ cur[t].fn = "f_read"
        /\ installs = MaxInstalls
        /\ pc[u] = "idle"
        /\ ~guard[u]

====
